---- MODULE Spec2Model ----
(***************************************************************************)
(* Model of src/main.rs: a ping/echo test harness.  The foreground thread  *)
(* (App::exec) binds a listener socket, spawns one background listener     *)
(* thread (spawn_tcp_ping_thread / spawn_udp_ping_thread) and then runs    *)
(* the client loop (ping_tcp / ping_udp) against the listener's address.   *)
(*                                                                         *)
(* The sockets are modelled by what the kernel does on the loopback        *)
(* interface: a TCP connection is a pair of byte streams with a backlog    *)
(* of established-but-not-accepted connections, a UDP socket is a queue    *)
(* of datagrams.  One write of a few bytes is delivered as a unit, a read  *)
(* returns what has arrived, up to the capacity of the buffer.  Every      *)
(* socket call may also fail: the *Err actions are those outcomes.         *)
(* Besides the program's own client, third-party peers may connect to the  *)
(* listener (connections 2..MaxConns) or send it datagrams.                *)
(***************************************************************************)
EXTENDS Integers, Sequences, FiniteSets, TLC

\* ---------------------------------------------------------------- bounds
MaxPings   == 3   \* client iterations explored: n in 0..MaxPings
MaxBound   == 2   \* --accept-pings values explored: 0..MaxBound, or absent
MaxConns   == 2   \* TCP connections: the client's and MaxConns-1 others
MaxExtMsgs == 1   \* messages third-party peers send in all

\* ------------------------------------------------------ program constants
BufCap    == 1024                      \* let mut buf = [0; 1024]
SleepSecs == 1                         \* Duration::from_secs(1)
Ping      == <<112, 105, 110, 103>>    \* b"ping"

None    == -1                          \* Option::None of accept_pings
ExtData == <<120>>                     \* what a third-party peer sends
Client  == 1                           \* the connection made by ping_tcp
Conns   == 1..MaxConns

VARIABLES
    cmd,            \* App.cmd: "Tcp" or "Udp"
    accept_pings,   \* App.accept_pings: None or a number
    reset_sigpipe,  \* App.reset_sigpipe
    mpc,            \* position of the foreground thread
    failedAt,       \* the call whose error was propagated by `?`
    err,            \* the error of the last failed foreground call
    n,              \* loop variable of `for n in 0..`
    stderr,         \* the numbers k of the lines `ping k` printed so far
    sent,           \* payloads the client has written/sent successfully
    replies,        \* what each successful client read/recv_from returned
    slept,          \* seconds the client has slept
    connects,       \* connect / client-bind calls made
    listener,       \* listener socket: "unbound", "bound", "closed"
    lpc,            \* position of the background thread
    stream,         \* connection held by the background thread (0: none)
    i,              \* iterations of `for _ in 0..accept_pings` completed
    buf,            \* bytes of the listener's buf written so far
    nread,          \* n of Ok(n) / Ok((n, addr)) of the last read
    from,           \* addr of Ok((n, addr)) of the last recv_from
    conns,          \* TCP connections
    backlog,        \* established connections not yet accepted
    lq,             \* datagrams queued at the listener's UDP socket
    cq,             \* datagrams queued at the client's UDP socket
    xq,             \* datagrams echoed to the third-party peer
    csock,          \* the client's UDP socket: "unbound", "bound"
    recvs,          \* recv_from calls the UDP listener has made
    extSent         \* messages third-party peers have sent

vars == <<cmd, accept_pings, reset_sigpipe, mpc, failedAt, err, n, stderr,
          sent, replies, slept, connects, listener, lpc, stream, i, buf,
          nread, from, conns, backlog, lq, cq, xq, csock, recvs, extSent>>

app   == <<cmd, accept_pings, reset_sigpipe>>
fg    == <<mpc, failedAt, err, n, stderr, sent, replies, slept, connects>>
bgv   == <<lpc, stream, i, buf, nread, from, recvs>>
tcpv  == <<conns, backlog>>
udpv  == <<lq, cq, xq, csock, extSent>>

\* ---------------------------------------------------------------- helpers
Min(a, b) == IF a < b THEN a ELSE b

\* &s[..k]
Take(s, k) == SubSeq(s, 1, Min(k, Len(s)))

\* &s[k..]
Drop(s, k) == SubSeq(s, Min(k, Len(s)) + 1, Len(s))

\* read(&mut b) of k bytes: the first Len(data) bytes of b are overwritten
Overwrite(b, data) == data \o Drop(b, Len(data))

\* A process whose main returned an error, or that a signal killed, is gone,
\* and its background thread with it.
Terminated == {"failed", "killed"}

Alive == mpc \notin Terminated

\* `?` on an Err: the error leaves exec and main, the process exits.
Fail(op, e) ==
    /\ mpc' = "failed"
    /\ failedAt' = op
    /\ err' = e

InitConn ==
    [st |-> "closed", c2s |-> <<>>, s2c |-> <<>>, fin |-> FALSE,
     rst |-> FALSE, reads |-> 0, rdBytes |-> 0, echoes |-> 0,
     end |-> "none"]

Init ==
    /\ cmd \in {"Tcp", "Udp"}
    /\ accept_pings \in {None} \cup (0..MaxBound)
    /\ reset_sigpipe \in BOOLEAN
    /\ mpc = "bind"
    /\ failedAt = "none"
    /\ err = "none"
    /\ n = 0
    /\ stderr = <<>>
    /\ sent = <<>>
    /\ replies = <<>>
    /\ slept = 0
    /\ connects = 0
    /\ listener = "unbound"
    /\ lpc = "none"
    /\ stream = 0
    /\ i = 0
    /\ buf = <<>>
    /\ nread = 0
    /\ from = "none"
    /\ conns = [c \in Conns |-> InitConn]
    /\ backlog = <<>>
    /\ lq = <<>>
    /\ cq = <<>>
    /\ xq = <<>>
    /\ csock = "unbound"
    /\ recvs = 0
    /\ extSent = 0

\* mutation: an inclusive range, 0..=accept_pings
TcpHasBudgetInclusive(k) == accept_pings = None \/ k <= accept_pings

\* `for _ in 0..accept_pings.unwrap_or(usize::MAX)` of the TCP thread: is
\* there a k-th iteration (k counted from 0)?  usize::MAX is beyond every
\* count explored.
TcpHasBudget(k) == accept_pings = None \/ k < accept_pings

\* mutation: the range of the UDP thread is inclusive, 0..=accept_pings
UdpHasBudgetInclusive(k) == accept_pings = None \/ k <= accept_pings

\* the same loop of the UDP thread
UdpHasBudget(k) == accept_pings = None \/ k < accept_pings

\* mutation: the socket is bound later, by the thread
TcpBindDeferred ==
    /\ mpc = "bind"
    /\ cmd = "Tcp"
    /\ mpc' = "local_addr"
    /\ UNCHANGED <<app, failedAt, err, n, stderr, sent, replies, slept,
                   connects, listener, bgv, tcpv, udpv>>

\* ---------------------------------------- spawn_tcp_ping_thread (startup)
\* TcpListener::bind("127.0.0.1:0")
TcpBind ==
    /\ mpc = "bind"
    /\ cmd = "Tcp"
    /\ listener' = "bound"
    /\ mpc' = "local_addr"
    /\ UNCHANGED <<app, failedAt, err, n, stderr, sent, replies, slept,
                   connects, bgv, tcpv, udpv>>

\* TcpListener::bind("127.0.0.1:0").context("failed to bind")?
TcpBindErr ==
    /\ mpc = "bind"
    /\ cmd = "Tcp"
    /\ Fail("bind", "io")
    /\ UNCHANGED <<app, n, stderr, sent, replies, slept, connects, listener,
                   bgv, tcpv, udpv>>

\* listener.local_addr()
TcpLocalAddr ==
    /\ mpc = "local_addr"
    /\ cmd = "Tcp"
    /\ mpc' = "spawn"
    /\ UNCHANGED <<app, failedAt, err, n, stderr, sent, replies, slept,
                   connects, listener, bgv, tcpv, udpv>>

\* mutation: the error of local_addr is not propagated
TcpLocalAddrErrIgnored ==
    /\ mpc = "local_addr"
    /\ cmd = "Tcp"
    /\ failedAt' = "local_addr"
    /\ err' = "io"
    /\ mpc' = "spawn"
    /\ UNCHANGED <<app, n, stderr, sent, replies, slept, connects, listener,
                   bgv, tcpv, udpv>>

\* listener.local_addr().context("failed to get local address")?: the
\* function returns and the socket it had bound is dropped.
TcpLocalAddrErr ==
    /\ mpc = "local_addr"
    /\ cmd = "Tcp"
    /\ Fail("local_addr", "io")
    /\ listener' = "closed"
    /\ UNCHANGED <<app, n, stderr, sent, replies, slept, connects, bgv,
                   tcpv, udpv>>

\* thread::spawn(move || ...); Ok(addr); exec prints the address and calls
\* ping_tcp.
TcpSpawn ==
    /\ mpc = "spawn"
    /\ cmd = "Tcp"
    /\ lpc' = "spawned"
    /\ mpc' = "connect"
    /\ UNCHANGED <<app, failedAt, err, n, stderr, sent, replies, slept,
                   connects, listener, stream, i, buf, nread, from, recvs,
                   tcpv, udpv>>

\* ----------------------------------------- spawn_tcp_ping_thread (thread)
\* The closure starts running: `for stream in listener.incoming()`.
TcpThreadStart ==
    /\ Alive
    /\ cmd = "Tcp"
    /\ lpc = "spawned"
    /\ lpc' = "accept"
    /\ UNCHANGED <<app, fg, listener, stream, i, buf, nread, from, recvs,
                   tcpv, udpv>>

\* mutation: the iteration count outlives the connection
LocalsKeepCount ==
    /\ i' = i
    /\ buf' = <<>>
    /\ nread' = 0

\* `let mut buf = [0; 1024]` and the counter of `for _ in 0..accept_pings`
\* are local to the arm: they are new at every accept and gone at its end.
LocalsDropped ==
    /\ i' = 0
    /\ buf' = <<>>
    /\ nread' = 0

\* mutation: the stream outlives the arm (kept, leaked or forgotten)
KeepStream(cs, c, why) == [cs EXCEPT ![c].end = why]

\* The end of the `Ok(mut stream) => { ... }` arm: stream goes out of scope
\* and the socket is closed.  Closing with unread data resets the
\* connection, otherwise the peer sees an orderly shutdown.
DropStream(cs, c, why) ==
    [cs EXCEPT ![c].st = IF cs[c].c2s # <<>> THEN "reset" ELSE "dropped",
               ![c].end = why]

\* mutation: connections are accepted while one is being read (a handler
\* per connection)
AcceptWhileReading == lpc \in {"accept", "read"}

\* The thread is in listener.incoming().next(), i.e. in accept().
AcceptReady == lpc = "accept"

\* incoming() yields Ok(stream); `let mut buf = [0; 1024]`; the for loop
\* over 0..accept_pings starts, and with no iteration to run the arm ends.
TcpAccept ==
    /\ Alive
    /\ AcceptReady
    /\ listener = "bound"
    /\ backlog # <<>>
    /\ LET c == Head(backlog)
           acc == [conns EXCEPT ![c].st = "accepted"]
       IN  /\ backlog' = Tail(backlog)
           /\ LocalsDropped
           /\ IF TcpHasBudget(0)
                 THEN /\ conns' = acc
                      /\ stream' = c
                      /\ lpc' = "read"
                 ELSE /\ conns' = DropStream(acc, c, "bound")
                      /\ stream' = 0
                      /\ lpc' = "accept"
    /\ UNCHANGED <<app, fg, listener, from, recvs, udpv>>

\* mutation: the error of accept is unwrapped and takes the process down
TcpAcceptErrAborts ==
    /\ Alive
    /\ lpc = "accept"
    /\ lpc' = "done"
    /\ listener' = "closed"
    /\ conns' = [c \in Conns |->
                   IF conns[c].st = "queued"
                      THEN [conns[c] EXCEPT !.st = "reset"]
                      ELSE conns[c]]
    /\ backlog' = <<>>
    /\ Fail("accept", "io")
    /\ UNCHANGED <<app, n, stderr, sent, replies, slept, connects, stream, i,
                   buf, nread, from, recvs, udpv>>

\* incoming() yields Err(_) => break: the closure returns, the listener
\* socket is dropped, connections waiting in its backlog are reset.
TcpAcceptErr ==
    /\ Alive
    /\ lpc = "accept"
    /\ lpc' = "done"
    /\ listener' = "closed"
    /\ conns' = [c \in Conns |->
                   IF conns[c].st = "queued"
                      THEN [conns[c] EXCEPT !.st = "reset"]
                      ELSE conns[c]]
    /\ backlog' = <<>>
    /\ UNCHANGED <<app, fg, stream, i, buf, nread, from, recvs, udpv>>

\* stream.read(&mut buf) returns Ok(n), n > 0
TcpRead ==
    /\ Alive
    /\ lpc = "read"
    /\ conns[stream].c2s # <<>>
    /\ LET c == stream
           data == Take(conns[c].c2s, BufCap)
       IN  /\ buf' = Overwrite(buf, data)
           /\ nread' = Len(data)
           /\ conns' = [conns EXCEPT ![c].c2s = Drop(conns[c].c2s, BufCap),
                                     ![c].reads = @ + 1,
                                     ![c].rdBytes = @ + Len(data)]
    /\ lpc' = "write"
    /\ UNCHANGED <<app, fg, listener, stream, i, from, recvs, backlog, udpv>>

\* mutation: end of stream ends the listener, not the connection
TcpReadEofFatal ==
    /\ Alive
    /\ lpc = "read"
    /\ conns[stream].c2s = <<>>
    /\ conns[stream].fin
    /\ conns' = DropStream([conns EXCEPT ![stream].reads = @ + 1],
                           stream, "eof")
    /\ stream' = 0
    /\ lpc' = "done"
    /\ listener' = "closed"
    /\ LocalsDropped
    /\ UNCHANGED <<app, fg, from, recvs, backlog, udpv>>

\* stream.read(&mut buf) returns Ok(0) => break
TcpReadEof ==
    /\ Alive
    /\ lpc = "read"
    /\ conns[stream].c2s = <<>>
    /\ conns[stream].fin
    /\ conns' = DropStream([conns EXCEPT ![stream].reads = @ + 1],
                           stream, "eof")
    /\ stream' = 0
    /\ lpc' = "accept"
    /\ LocalsDropped
    /\ UNCHANGED <<app, fg, listener, from, recvs, backlog, udpv>>

\* mutation: a read error ends the listener, not the connection
TcpReadErrFatal ==
    /\ Alive
    /\ lpc = "read"
    /\ conns' = DropStream([conns EXCEPT ![stream].reads = @ + 1],
                           stream, "rerr")
    /\ stream' = 0
    /\ lpc' = "done"
    /\ listener' = "closed"
    /\ LocalsDropped
    /\ UNCHANGED <<app, fg, from, recvs, backlog, udpv>>

\* stream.read(&mut buf) returns Err(_) => break
TcpReadErr ==
    /\ Alive
    /\ lpc = "read"
    /\ conns' = DropStream([conns EXCEPT ![stream].reads = @ + 1],
                           stream, "rerr")
    /\ stream' = 0
    /\ lpc' = "accept"
    /\ LocalsDropped
    /\ UNCHANGED <<app, fg, listener, from, recvs, backlog, udpv>>

\* mutation: the slice is one byte short, &buf[..n - 1]
TcpEchoSliceShort(b, k) == Take(b, k - 1)

\* &buf[..n] of stream.write_all
TcpEchoSlice(b, k) == Take(b, k)

\* stream.write_all(&buf[..n]) succeeds; the next iteration of the for loop
\* starts, or the loop is exhausted and the arm ends.
TcpWrite ==
    /\ Alive
    /\ lpc = "write"
    /\ LET c == stream
           echoed == [conns EXCEPT ![c].s2c = @ \o TcpEchoSlice(buf, nread),
                                   ![c].echoes = @ + 1]
       IN  IF TcpHasBudget(i + 1)
              THEN /\ conns' = echoed
                   /\ lpc' = "read"
                   /\ stream' = stream
                   /\ i' = i + 1
                   /\ UNCHANGED <<buf, nread>>
              ELSE /\ conns' = DropStream(echoed, c, "bound")
                   /\ lpc' = "accept"
                   /\ stream' = 0
                   /\ LocalsDropped
    /\ UNCHANGED <<app, fg, listener, from, recvs, backlog, udpv>>

\* stream.write_all(&buf[..n]).is_err() => break
TcpWriteErr ==
    /\ Alive
    /\ lpc = "write"
    /\ conns' = DropStream(conns, stream, "werr")
    /\ stream' = 0
    /\ lpc' = "accept"
    /\ LocalsDropped
    /\ UNCHANGED <<app, fg, listener, from, recvs, backlog, udpv>>

\* ----------------------------------------------------------------- ping_tcp
\* TcpStream::connect(addr): the kernel completes the handshake and queues
\* the connection whether or not the thread is in accept().
PingTcpConnect ==
    /\ mpc = "connect"
    /\ cmd = "Tcp"
    /\ listener = "bound"
    /\ conns' = [conns EXCEPT ![Client].st = "queued"]
    /\ backlog' = Append(backlog, Client)
    /\ connects' = connects + 1
    /\ mpc' = "log"
    /\ UNCHANGED <<app, failedAt, err, n, stderr, sent, replies, slept,
                   listener, bgv, udpv>>

\* TcpStream::connect(addr).context("failed to connect")?
PingTcpConnectErr ==
    /\ mpc = "connect"
    /\ cmd = "Tcp"
    /\ Fail("connect", IF listener = "closed" THEN "ECONNREFUSED" ELSE "io")
    /\ connects' = connects + 1
    /\ UNCHANGED <<app, n, stderr, sent, replies, slept, listener, bgv,
                   tcpv, udpv>>

\* mutation: the counter is printed one too high
PingTcpLogFromOne ==
    /\ mpc = "log"
    /\ cmd = "Tcp"
    /\ n <= MaxPings
    /\ stderr' = Append(stderr, n + 1)
    /\ mpc' = "send"
    /\ UNCHANGED <<app, failedAt, err, n, sent, replies, slept, connects,
                   listener, bgv, tcpv, udpv>>

\* eprintln!("ping {}", n)
PingTcpLog ==
    /\ mpc = "log"
    /\ cmd = "Tcp"
    /\ n <= MaxPings
    /\ stderr' = Append(stderr, n)
    /\ mpc' = "send"
    /\ UNCHANGED <<app, failedAt, err, n, sent, replies, slept, connects,
                   listener, bgv, tcpv, udpv>>

\* stream.write_all(b"ping") succeeds: on an open connection the bytes are
\* queued for the listener; after the listener has closed its end the first
\* write still succeeds and is answered by a reset.
PingTcpWrite ==
    /\ mpc = "send"
    /\ cmd = "Tcp"
    /\ \/ /\ conns[Client].st \in {"queued", "accepted"}
          /\ conns' = [conns EXCEPT ![Client].c2s = @ \o Ping]
       \/ /\ conns[Client].st = "dropped"
          /\ ~conns[Client].rst
          /\ conns' = [conns EXCEPT ![Client].rst = TRUE]
    /\ sent' = Append(sent, Ping)
    /\ mpc' = "recv"
    /\ UNCHANGED <<app, failedAt, err, n, stderr, replies, slept, connects,
                   listener, bgv, backlog, udpv>>

\* stream.write_all(b"ping")? on a connection that was closed and reset:
\* EPIPE, delivered as SIGPIPE when the default disposition was restored
\* (sigpipe::reset()), else ECONNRESET once for an aborted connection.
PingTcpWriteBroken ==
    /\ mpc = "send"
    /\ cmd = "Tcp"
    /\ \/ /\ conns[Client].st = "dropped"
          /\ conns[Client].rst
          /\ IF reset_sigpipe
                THEN /\ mpc' = "killed"
                     /\ failedAt' = "write"
                     /\ err' = "SIGPIPE"
                ELSE Fail("write", "EPIPE")
       \/ /\ conns[Client].st = "reset"
          /\ Fail("write", "ECONNRESET")
    /\ UNCHANGED <<app, n, stderr, sent, replies, slept, connects, listener,
                   bgv, tcpv, udpv>>

\* stream.write_all(b"ping")? fails for another reason
PingTcpWriteErr ==
    /\ mpc = "send"
    /\ cmd = "Tcp"
    /\ Fail("write", "io")
    /\ UNCHANGED <<app, n, stderr, sent, replies, slept, connects, listener,
                   bgv, tcpv, udpv>>

\* The client's read can return: a reply has arrived, or the listener has
\* closed or reset the connection.
TcpRecvReady ==
    \/ conns[Client].s2c # <<>>
    \/ conns[Client].st \in {"dropped", "reset"}

\* mutation: the read returns at once, with or without data
PingTcpReadNoWait ==
    /\ mpc = "recv"
    /\ cmd = "Tcp"
    /\ replies' = Append(replies, Take(conns[Client].s2c, BufCap))
    /\ conns' = [conns EXCEPT ![Client].s2c = Drop(@, BufCap)]
    /\ mpc' = "sleep"
    /\ UNCHANGED <<app, failedAt, err, n, stderr, sent, slept, connects,
                   listener, bgv, backlog, udpv>>

\* stream.read(&mut buf)? returns Ok(n): the bytes that have arrived, or
\* Ok(0) at end of stream.  The result is not looked at.
PingTcpRead ==
    /\ mpc = "recv"
    /\ cmd = "Tcp"
    /\ \/ conns[Client].s2c # <<>>
       \/ conns[Client].st = "dropped"
    /\ replies' = Append(replies, Take(conns[Client].s2c, BufCap))
    /\ conns' = [conns EXCEPT ![Client].s2c = Drop(@, BufCap)]
    /\ mpc' = "sleep"
    /\ UNCHANGED <<app, failedAt, err, n, stderr, sent, slept, connects,
                   listener, bgv, backlog, udpv>>

\* stream.read(&mut buf)? on a reset connection with nothing left to read
PingTcpReadReset ==
    /\ mpc = "recv"
    /\ cmd = "Tcp"
    /\ conns[Client].s2c = <<>>
    /\ conns[Client].st = "reset"
    /\ Fail("read", "ECONNRESET")
    /\ UNCHANGED <<app, n, stderr, sent, replies, slept, connects, listener,
                   bgv, tcpv, udpv>>

\* mutation: the error of the read is dropped (no `?`) and the loop goes on
PingTcpReadErrIgnored ==
    /\ mpc = "recv"
    /\ cmd = "Tcp"
    /\ failedAt' = "read"
    /\ err' = "io"
    /\ mpc' = "sleep"
    /\ UNCHANGED <<app, n, stderr, sent, replies, slept, connects, listener,
                   bgv, tcpv, udpv>>

\* stream.read(&mut buf)? fails for another reason
PingTcpReadErr ==
    /\ mpc = "recv"
    /\ cmd = "Tcp"
    /\ Fail("read", "io")
    /\ UNCHANGED <<app, n, stderr, sent, replies, slept, connects, listener,
                   bgv, tcpv, udpv>>

\* thread::sleep(Duration::from_secs(1)); next n
PingTcpSleep ==
    /\ mpc = "sleep"
    /\ cmd = "Tcp"
    /\ slept' = slept + SleepSecs
    /\ n' = n + 1
    /\ mpc' = "log"
    /\ UNCHANGED <<app, failedAt, err, stderr, sent, replies, connects,
                   listener, bgv, tcpv, udpv>>

\* ------------------------------------------------- third-party TCP peers
\* Third-party peers are interchangeable: they connect in the order of
\* their numbers.
ExtConnect(c) ==
    /\ Alive
    /\ cmd = "Tcp"
    /\ c # Client
    /\ listener = "bound"
    /\ conns[c].st = "closed"
    /\ \A d \in Conns : (d # Client /\ d < c) => conns[d].st # "closed"
    /\ conns' = [conns EXCEPT ![c].st = "queued"]
    /\ backlog' = Append(backlog, c)
    /\ UNCHANGED <<app, fg, listener, bgv, udpv>>

ExtWrite(c) ==
    /\ Alive
    /\ c # Client
    /\ conns[c].st \in {"queued", "accepted"}
    /\ ~conns[c].fin
    /\ extSent < MaxExtMsgs
    /\ conns' = [conns EXCEPT ![c].c2s = @ \o ExtData]
    /\ extSent' = extSent + 1
    /\ UNCHANGED <<app, fg, listener, bgv, backlog, lq, cq, xq, csock>>

\* the peer shuts its side down: the listener's next read returns Ok(0)
ExtClose(c) ==
    /\ Alive
    /\ c # Client
    /\ conns[c].st \in {"queued", "accepted"}
    /\ ~conns[c].fin
    /\ conns' = [conns EXCEPT ![c].fin = TRUE]
    /\ UNCHANGED <<app, fg, listener, bgv, backlog, udpv>>

\* ---------------------------------------- spawn_udp_ping_thread (startup)
\* UdpSocket::bind("127.0.0.1:0")
UdpBind ==
    /\ mpc = "bind"
    /\ cmd = "Udp"
    /\ listener' = "bound"
    /\ mpc' = "local_addr"
    /\ UNCHANGED <<app, failedAt, err, n, stderr, sent, replies, slept,
                   connects, bgv, tcpv, udpv>>

\* UdpSocket::bind("127.0.0.1:0").context("failed to bind")?
UdpBindErr ==
    /\ mpc = "bind"
    /\ cmd = "Udp"
    /\ Fail("bind", "io")
    /\ UNCHANGED <<app, n, stderr, sent, replies, slept, connects, listener,
                   bgv, tcpv, udpv>>

\* listener.local_addr()
UdpLocalAddr ==
    /\ mpc = "local_addr"
    /\ cmd = "Udp"
    /\ mpc' = "spawn"
    /\ UNCHANGED <<app, failedAt, err, n, stderr, sent, replies, slept,
                   connects, listener, bgv, tcpv, udpv>>

\* listener.local_addr().context("failed to get local address")?: the
\* function returns and the socket it had bound is dropped.
UdpLocalAddrErr ==
    /\ mpc = "local_addr"
    /\ cmd = "Udp"
    /\ Fail("local_addr", "io")
    /\ listener' = "closed"
    /\ UNCHANGED <<app, n, stderr, sent, replies, slept, connects, bgv,
                   tcpv, udpv>>

\* thread::spawn(move || ...); Ok(addr); exec prints the address and calls
\* ping_udp.
UdpSpawn ==
    /\ mpc = "spawn"
    /\ cmd = "Udp"
    /\ lpc' = "spawned"
    /\ mpc' = "connect"
    /\ UNCHANGED <<app, failedAt, err, n, stderr, sent, replies, slept,
                   connects, listener, stream, i, buf, nread, from, recvs,
                   tcpv, udpv>>

\* ----------------------------------------- spawn_udp_ping_thread (thread)
\* The listener's UDP socket is dropped when the closure returns; what was
\* queued at it is discarded.
UdpThreadEnd ==
    /\ lpc' = "done"
    /\ listener' = "closed"
    /\ lq' = <<>>

\* The closure starts running: `let mut buf = [0; 1024]` and the for loop
\* over 0..accept_pings, which may have no iteration to run.
UdpThreadStart ==
    /\ Alive
    /\ cmd = "Udp"
    /\ lpc = "spawned"
    /\ IF UdpHasBudget(0)
          THEN /\ lpc' = "recv_from"
               /\ UNCHANGED <<listener, lq>>
          ELSE UdpThreadEnd
    /\ UNCHANGED <<app, fg, stream, i, buf, nread, from, recvs, tcpv, cq, xq,
                   csock, extSent>>

\* listener.recv_from(&mut buf) returns Ok((n, addr)): one datagram, cut to
\* the capacity of buf.
UdpRecvFrom ==
    /\ Alive
    /\ lpc = "recv_from"
    /\ lq # <<>>
    /\ LET d == Head(lq)
           data == Take(d.data, BufCap)
       IN  /\ buf' = Overwrite(buf, data)
           /\ nread' = Len(data)
           /\ from' = d.from
    /\ lq' = Tail(lq)
    /\ recvs' = recvs + 1
    /\ lpc' = "send_to"
    /\ UNCHANGED <<app, fg, listener, stream, i, tcpv, cq, xq, csock,
                   extSent>>

\* mutation: the error of recv_from is skipped and the loop goes on
UdpRecvFromErrIgnored ==
    /\ Alive
    /\ lpc = "recv_from"
    /\ recvs' = recvs + 1
    /\ i' = i + 1
    /\ IF UdpHasBudget(i + 1)
          THEN /\ lpc' = "recv_from"
               /\ UNCHANGED <<listener, lq>>
          ELSE UdpThreadEnd
    /\ UNCHANGED <<app, fg, stream, buf, nread, from, tcpv, cq, xq, csock,
                   extSent>>

\* listener.recv_from(&mut buf) returns Err(_) => break
UdpRecvFromErr ==
    /\ Alive
    /\ lpc = "recv_from"
    /\ recvs' = recvs + 1
    /\ UdpThreadEnd
    /\ UNCHANGED <<app, fg, stream, i, buf, nread, from, tcpv, cq, xq, csock,
                   extSent>>

\* &buf[..n] of listener.send_to
UdpEchoSlice(b, k) == Take(b, k)

\* the for loop of the UDP thread after an iteration: next one, or return
UdpNext ==
    /\ i' = i + 1
    /\ IF UdpHasBudget(i + 1)
          THEN /\ lpc' = "recv_from"
               /\ UNCHANGED <<listener, lq>>
          ELSE UdpThreadEnd

\* listener.send_to(&buf[..n], addr) succeeds and the datagram arrives
UdpSendTo ==
    /\ Alive
    /\ lpc = "send_to"
    /\ IF from = "client"
          THEN /\ cq' = Append(cq, UdpEchoSlice(buf, nread))
               /\ xq' = xq
          ELSE /\ xq' = Append(xq, UdpEchoSlice(buf, nread))
               /\ cq' = cq
    /\ UdpNext
    /\ UNCHANGED <<app, fg, stream, buf, nread, from, recvs, tcpv, csock,
                   extSent>>

\* listener.send_to(&buf[..n], addr) succeeds and the datagram is lost
UdpSendToLost ==
    /\ Alive
    /\ lpc = "send_to"
    /\ UdpNext
    /\ UNCHANGED <<app, fg, stream, buf, nread, from, recvs, tcpv, cq, xq,
                   csock, extSent>>

\* listener.send_to(&buf[..n], addr).is_err() => break
UdpSendToErr ==
    /\ Alive
    /\ lpc = "send_to"
    /\ UdpThreadEnd
    /\ UNCHANGED <<app, fg, stream, i, buf, nread, from, recvs, tcpv, cq, xq,
                   csock, extSent>>

\* ----------------------------------------------------------------- ping_udp
\* UdpSocket::bind("127.0.0.1:0")
PingUdpBind ==
    /\ mpc = "connect"
    /\ cmd = "Udp"
    /\ csock' = "bound"
    /\ connects' = connects + 1
    /\ mpc' = "log"
    /\ UNCHANGED <<app, failedAt, err, n, stderr, sent, replies, slept,
                   listener, bgv, tcpv, lq, cq, xq, extSent>>

\* UdpSocket::bind("127.0.0.1:0").context("failed to connect")?
PingUdpBindErr ==
    /\ mpc = "connect"
    /\ cmd = "Udp"
    /\ Fail("connect", "io")
    /\ connects' = connects + 1
    /\ UNCHANGED <<app, n, stderr, sent, replies, slept, listener, bgv,
                   tcpv, udpv>>

\* eprintln!("ping {}", n)
PingUdpLog ==
    /\ mpc = "log"
    /\ cmd = "Udp"
    /\ n <= MaxPings
    /\ stderr' = Append(stderr, n)
    /\ mpc' = "send"
    /\ UNCHANGED <<app, failedAt, err, n, sent, replies, slept, connects,
                   listener, bgv, tcpv, udpv>>

\* socket.send_to(b"ping", addr) succeeds: the datagram is queued at the
\* listener's socket, or discarded when no socket is bound to addr any more
\* (an unconnected socket is not told).
PingUdpSendTo ==
    /\ mpc = "send"
    /\ cmd = "Udp"
    /\ lq' = IF listener = "bound"
                THEN Append(lq, [data |-> Ping, from |-> "client"])
                ELSE lq
    /\ sent' = Append(sent, Ping)
    /\ mpc' = "recv"
    /\ UNCHANGED <<app, failedAt, err, n, stderr, replies, slept, connects,
                   listener, bgv, tcpv, cq, xq, csock, extSent>>

\* socket.send_to(b"ping", addr) succeeds and the datagram is lost
PingUdpSendToLost ==
    /\ mpc = "send"
    /\ cmd = "Udp"
    /\ listener = "bound"
    /\ sent' = Append(sent, Ping)
    /\ mpc' = "recv"
    /\ UNCHANGED <<app, failedAt, err, n, stderr, replies, slept, connects,
                   listener, bgv, tcpv, udpv>>

\* socket.send_to(b"ping", addr)? fails
PingUdpSendToErr ==
    /\ mpc = "send"
    /\ cmd = "Udp"
    /\ Fail("send_to", "io")
    /\ UNCHANGED <<app, n, stderr, sent, replies, slept, connects, listener,
                   bgv, tcpv, udpv>>

\* The client's recv_from can return: a datagram is queued at its socket.
UdpRecvReady == cq # <<>>

\* mutation: the receive does not wait for a datagram
PingUdpRecvFromNoWait ==
    /\ mpc = "recv"
    /\ cmd = "Udp"
    /\ IF cq # <<>>
          THEN /\ replies' = Append(replies, Take(Head(cq), BufCap))
               /\ cq' = Tail(cq)
          ELSE /\ replies' = Append(replies, <<>>)
               /\ cq' = cq
    /\ mpc' = "sleep"
    /\ UNCHANGED <<app, failedAt, err, n, stderr, sent, slept, connects,
                   listener, bgv, tcpv, lq, xq, csock, extSent>>

\* socket.recv_from(&mut buf)? returns Ok: one datagram, cut to the capacity
\* of buf.  The result is not looked at.
PingUdpRecvFrom ==
    /\ mpc = "recv"
    /\ cmd = "Udp"
    /\ cq # <<>>
    /\ replies' = Append(replies, Take(Head(cq), BufCap))
    /\ cq' = Tail(cq)
    /\ mpc' = "sleep"
    /\ UNCHANGED <<app, failedAt, err, n, stderr, sent, slept, connects,
                   listener, bgv, tcpv, lq, xq, csock, extSent>>

\* socket.recv_from(&mut buf)? fails
PingUdpRecvFromErr ==
    /\ mpc = "recv"
    /\ cmd = "Udp"
    /\ Fail("recv_from", "io")
    /\ UNCHANGED <<app, n, stderr, sent, replies, slept, connects, listener,
                   bgv, tcpv, udpv>>

\* thread::sleep(Duration::from_secs(1)); next n
PingUdpSleep ==
    /\ mpc = "sleep"
    /\ cmd = "Udp"
    /\ slept' = slept + SleepSecs
    /\ n' = n + 1
    /\ mpc' = "log"
    /\ UNCHANGED <<app, failedAt, err, stderr, sent, replies, connects,
                   listener, bgv, tcpv, udpv>>

\* ------------------------------------------------- third-party UDP sender
ExtUdpSend ==
    /\ Alive
    /\ cmd = "Udp"
    /\ listener = "bound"
    /\ extSent < MaxExtMsgs
    /\ lq' = Append(lq, [data |-> ExtData, from |-> "ext"])
    /\ extSent' = extSent + 1
    /\ UNCHANGED <<app, fg, listener, bgv, tcpv, cq, xq, csock>>

\* ------------------------------------------------------------ specification
Startup ==
    \/ TcpBind \/ TcpBindErr \/ TcpLocalAddr \/ TcpLocalAddrErr \/ TcpSpawn
    \/ UdpBind \/ UdpBindErr \/ UdpLocalAddr \/ UdpLocalAddrErr \/ UdpSpawn

TcpListenerThread ==
    \/ TcpThreadStart \/ TcpAccept \/ TcpAcceptErr
    \/ TcpRead \/ TcpReadEof \/ TcpReadErr
    \/ TcpWrite \/ TcpWriteErr

UdpListenerThread ==
    \/ UdpThreadStart
    \/ UdpRecvFrom \/ UdpRecvFromErr
    \/ UdpSendTo \/ UdpSendToLost \/ UdpSendToErr

PingTcp ==
    \/ PingTcpConnect \/ PingTcpConnectErr \/ PingTcpLog
    \/ PingTcpWrite \/ PingTcpWriteBroken \/ PingTcpWriteErr
    \/ PingTcpRead \/ PingTcpReadReset \/ PingTcpReadErr
    \/ PingTcpSleep

PingUdp ==
    \/ PingUdpBind \/ PingUdpBindErr \/ PingUdpLog
    \/ PingUdpSendTo \/ PingUdpSendToLost \/ PingUdpSendToErr
    \/ PingUdpRecvFrom \/ PingUdpRecvFromErr
    \/ PingUdpSleep

Peers ==
    \/ \E c \in Conns : ExtConnect(c) \/ ExtWrite(c) \/ ExtClose(c)
    \/ ExtUdpSend

Next ==
    \/ Startup
    \/ TcpListenerThread
    \/ UdpListenerThread
    \/ PingTcp
    \/ PingUdp
    \/ Peers

Spec == Init /\ [][Next]_vars

\* ------------------------------------------------------------------ claims
Bounded == accept_pings # None /\ accept_pings >= 1

\* replies that carried bytes (a read at end of stream returns none)
Echoes == {k \in DOMAIN replies : replies[k] # <<>>}

\* C1: for every bound N >= 1 the TCP listener makes at most N reads on any
\* one accepted connection and the UDP listener at most N recv_from calls in
\* all; what the client sends after the bound is reached is never read and
\* never echoed: no more than N payloads of the client are read, no more
\* than N echoes are written on a connection or reach the client.
C1_AtMostNReads ==
    Bounded =>
        /\ \A c \in Conns : /\ conns[c].reads <= accept_pings
                            /\ conns[c].echoes <= accept_pings
        /\ recvs <= accept_pings
        /\ conns[Client].rdBytes <= accept_pings * Len(Ping)
        /\ Cardinality(Echoes) <= accept_pings
        /\ Len(cq) + Len(xq) <= accept_pings

\* the bound is used up and the client has sent one more payload
C1_Witness ==
    /\ Bounded
    /\ Len(sent) = accept_pings + 1
    /\ \/ cmd = "Tcp" /\ conns[Client].reads = accept_pings
       \/ cmd = "Udp" /\ recvs = accept_pings /\ Cardinality(Echoes) = accept_pings

\* C2 as stated: once the listener has read and echoed its N-th message on
\* the client's connection, the connection remains open and no write of the
\* client fails with a broken pipe.
C2_ConnectionStaysOpen ==
    /\ (Bounded /\ conns[Client].echoes = accept_pings) =>
          conns[Client].st = "accepted"
    /\ err \notin {"EPIPE", "SIGPIPE"}

\* C2, amended: once the listener has read and echoed its N-th message on a
\* connection, it has closed its side of that connection and reads nothing
\* more from it.
C2_ClosedAfterBound ==
    \A c \in Conns :
        (Bounded /\ conns[c].echoes = accept_pings) =>
            /\ conns[c].st \in {"dropped", "reset"}
            /\ conns[c].end = "bound"
            /\ stream # c
            /\ conns[c].reads = accept_pings

\* the bound is used up on the client's connection and the client has
\* written once more
C2_Witness ==
    /\ Bounded
    /\ conns[Client].echoes = accept_pings
    /\ Len(sent) > accept_pings
    /\ conns[Client].rst

\* C3: every reply with bytes that the client receives is the payload it
\* sent in that iteration, cut to the 1024 bytes of the buffer.
C3_RoundTrip ==
    \A k \in Echoes :
        /\ k <= Len(sent)
        /\ replies[k] = Take(sent[k], BufCap)

\* the client has received an echo, over either transport
C3_Witness == Len(replies) >= 2 /\ replies[2] # <<>>

ClientIoFailed == failedAt \in {"write", "read", "send_to", "recv_from"}

\* C4: the first error of a write/send or read/receive of the running client
\* loop terminates the process; after it no ping is logged, nothing is sent
\* and no connection is made.
C4_FirstErrorEnds ==
    /\ [](ClientIoFailed => mpc \in Terminated)
    /\ [][ClientIoFailed =>
             /\ mpc' = mpc
             /\ stderr' = stderr
             /\ sent' = sent
             /\ connects' = connects
             /\ conns'[Client] = conns[Client]
             /\ lq' = lq]_vars

\* the loop had completed an iteration when a read or receive failed
C4_Witness ==
    /\ failedAt \in {"read", "recv_from"}
    /\ Len(replies) >= 1
    /\ mpc = "failed"

\* C5: when bind or local_addr fails, no thread is spawned and the client
\* makes no connection; when the connect (or the client's bind) fails, the
\* process terminates; in all three cases `ping 0` is never logged and no
\* payload is sent.
C5_StartupFailureIsFatal ==
    /\ failedAt \in {"bind", "local_addr"} => lpc = "none" /\ connects = 0
    /\ failedAt \in {"bind", "local_addr", "connect"} =>
          /\ mpc = "failed"
          /\ stderr = <<>>
          /\ sent = <<>>
          /\ conns[Client].st = "closed"
          /\ conns[Client].rdBytes = 0
          /\ \A k \in DOMAIN lq : lq[k].from # "client"

\* the connect failed after the thread had been spawned
C5_Witness == failedAt = "connect" /\ lpc # "none"

\* C6: a read of zero bytes ends the loop of that connection only: the
\* thread is back in accept with the listener socket open, nothing changes
\* for the foreground or for another connection; and every connection that
\* is accepted starts its loop at iteration 0 with no read made on it.
C6_EofEndsConnectionOnly ==
    [][\A c \in Conns :
          /\ (conns[c].end = "none" /\ conns'[c].end = "eof") =>
                /\ lpc' = "accept"
                /\ listener' = "bound"
                /\ stream' = 0
                /\ conns'[c].st = "dropped"
                /\ UNCHANGED fg
                /\ \A d \in Conns \ {c} : conns'[d] = conns[d]
          /\ (conns[c].st = "queued" /\ conns'[c].st = "accepted") =>
                /\ i' = 0
                /\ conns'[c].reads = 0
                /\ stream' = c]_vars

\* after a connection that was served and ended at end of stream, the next
\* connection is being served its accept_pings-th read
C6_Witness ==
    \E c, d \in Conns :
        /\ conns[c].end = "eof"
        /\ conns[c].echoes >= 1
        /\ conns[d].st = "accepted"
        /\ Bounded
        /\ conns[d].reads = accept_pings
        /\ lpc = "write"

\* C7: the counter logged starts at 0 and grows by 1; every payload is the 4
\* bytes of `ping`; in iteration n the client logs, then sends, then
\* receives once, then sleeps one second, and only then starts iteration
\* n + 1.
C7_IterationOrder ==
    /\ [](\A k \in DOMAIN stderr : stderr[k] = k - 1)
    /\ [](\A k \in DOMAIN sent : sent[k] = Ping /\ Len(sent[k]) = 4)
    /\ [](/\ mpc = "log" =>
              /\ Len(stderr) = n /\ Len(sent) = n
              /\ Len(replies) = n /\ slept = n
          /\ mpc = "send" =>
              /\ Len(stderr) = n + 1 /\ Len(sent) = n
              /\ Len(replies) = n /\ slept = n
          /\ mpc = "recv" =>
              /\ Len(stderr) = n + 1 /\ Len(sent) = n + 1
              /\ Len(replies) = n /\ slept = n
          /\ mpc = "sleep" =>
              /\ Len(stderr) = n + 1 /\ Len(sent) = n + 1
              /\ Len(replies) = n + 1 /\ slept = n)
    /\ [][/\ mpc = "log" => mpc' \in {"log", "send"}
          /\ mpc = "send" => mpc' \in {"send", "recv"} \cup Terminated
          /\ mpc = "recv" => mpc' \in {"recv", "sleep"} \cup Terminated
          /\ mpc = "sleep" => mpc' \in {"sleep", "log"}
          /\ n' \in {n, n + 1}]_vars

\* two iterations are complete and the third is about to log
C7_Witness == mpc = "send" /\ n = 2 /\ stderr = <<0, 1, 2>>

\* The client's receive can return.
ClientRecvReady == IF cmd = "Tcp" THEN TcpRecvReady ELSE UdpRecvReady

\* the client is in its receive, nothing has arrived and the listener thread
\* has returned
ClientStalled ==
    /\ mpc = "recv"
    /\ ~ClientRecvReady
    /\ lpc = "done"

\* C8 as stated: the client is never held in its receive by a listener that
\* does not reply.
C8_NeverStalls == ~ClientStalled

\* C8, amended: the client leaves its receive for the sleep only when a
\* reply or the end of the stream has arrived; held in its receive after the
\* listener thread has returned, it stays there, logs and sends nothing
\* more, unless the receive fails.
C8_BlocksUntilReply ==
    /\ [][(mpc = "recv" /\ mpc' = "sleep") => ClientRecvReady]_vars
    /\ [][ClientStalled =>
             \/ /\ ClientStalled'
                /\ stderr' = stderr
                /\ sent' = sent
             \/ mpc' = "failed"]_vars

\* the UDP client has had an echo and is now held in recv_from
C8_Witness ==
    /\ ClientStalled
    /\ cmd = "Udp"
    /\ Cardinality(Echoes) >= 1

\* C9: at most one accepted connection is open at the listener, and it is
\* the one the thread reads; a connection still waiting to be accepted has
\* had nothing read from it and nothing echoed to it.
C9_Sequential ==
    /\ Cardinality({c \in Conns : conns[c].st = "accepted"}) <= 1
    /\ \A c \in Conns :
          /\ conns[c].st = "accepted" => stream = c /\ lpc \in {"read", "write"}
          /\ conns[c].st = "queued" =>
                /\ conns[c].reads = 0
                /\ conns[c].echoes = 0
                /\ conns[c].s2c = <<>>

\* a connection that has sent data waits while another one is being read
C9_Witness ==
    \E c, d \in Conns :
        /\ conns[c].st = "accepted"
        /\ conns[c].echoes >= 1
        /\ conns[d].st = "queued"
        /\ conns[d].c2s # <<>>

\* C10: a read error or a write error on an accepted connection ends that
\* connection only: the thread is back in accept with the listener socket
\* open and its backlog untouched, and nothing changes for the foreground.
C10_ConnErrorEndsConnectionOnly ==
    [][\A c \in Conns :
          (conns[c].end = "none" /\ conns'[c].end \in {"rerr", "werr"}) =>
              /\ lpc' = "accept"
              /\ listener' = "bound"
              /\ stream' = 0
              /\ conns'[c].st \in {"dropped", "reset"}
              /\ backlog' = backlog
              /\ UNCHANGED fg
              /\ \A d \in Conns \ {c} : conns'[d] = conns[d]]_vars

\* after a connection ended by an error, the next one is served
C10_Witness ==
    \E c, d \in Conns :
        /\ conns[c].end \in {"rerr", "werr"}
        /\ conns[d].st = "accepted"
        /\ conns[d].echoes >= 1
        /\ Alive


\* C11: an accept error ends the TCP listener thread for good: the step
\* closes the listener socket and changes nothing for the foreground; from
\* then on the thread stays ended, no connection is accepted and nothing is
\* read or echoed on any connection.
C11_AcceptErrorEndsListener ==
    /\ [][(lpc = "accept" /\ lpc' = "done") =>
             /\ listener' = "closed"
             /\ backlog' = <<>>
             /\ \A c \in Conns : conns'[c].st \notin {"queued", "accepted"}
             /\ UNCHANGED fg]_vars
    /\ [][(cmd = "Tcp" /\ lpc = "done") =>
             /\ lpc' = "done"
             /\ listener' = "closed"
             /\ stream' = 0
             /\ \A c \in Conns :
                   /\ conns'[c].st \notin {"queued", "accepted"}
                   /\ conns'[c].reads = conns[c].reads
                   /\ conns'[c].rdBytes = conns[c].rdBytes
                   /\ conns'[c].echoes = conns[c].echoes
                   /\ conns'[c].s2c = conns[c].s2c
                        \/ Len(conns'[c].s2c) < Len(conns[c].s2c)]_vars

\* the listener thread has ended on an accept error and the client, served
\* before, has gone on to log its next ping
C11_Witness ==
    /\ cmd = "Tcp"
    /\ lpc = "done"
    /\ Alive
    /\ conns[Client].echoes >= 1
    /\ Len(stderr) > Len(replies)


\* C12: in the UDP listener a recv_from that returns no datagram (an error)
\* and a send_to that fails end the thread at once, whatever is left of the
\* bound: every recv_from call is followed by a send_to or by the end of the
\* thread, an iteration is only completed by a send_to that succeeded, and
\* once the thread has ended nothing is received or echoed any more.
C12_UdpErrorEndsThread ==
    /\ [][(cmd = "Udp" /\ recvs' # recvs) =>
             \/ lpc' = "send_to" /\ lq # <<>> /\ lq' = Tail(lq)
             \/ lpc' = "done" /\ listener' = "closed" /\ i' = i]_vars
    /\ [][(lpc = "send_to" /\ lpc' # "send_to") =>
             \/ i' = i + 1
             \/ /\ lpc' = "done"
                /\ listener' = "closed"
                /\ i' = i
                /\ UNCHANGED <<cq, xq>>]_vars
    /\ [][(cmd = "Udp" /\ lpc = "done") =>
             /\ UNCHANGED <<lpc, recvs, i, xq, listener>>
             /\ lq' = <<>>
             /\ cq' = cq \/ (mpc = "recv" /\ cq' = Tail(cq))]_vars

\* the thread has ended with iterations of its bound left, after it had
\* echoed a datagram, and the client waits for an echo
C12_Witness ==
    /\ cmd = "Udp"
    /\ lpc = "done"
    /\ UdpHasBudget(i)
    /\ i >= 1
    /\ Alive
    /\ mpc = "recv"
    /\ Len(sent) > Cardinality(Echoes)


\* C13: the bound counts per connection for TCP and per socket for UDP.
\* TCP: the count of the connection being served is the number of reads made
\* on that connection alone, no connection is read more than accept_pings
\* times, and the step that exhausts the bound takes the thread back to
\* accept with the listener still bound.  UDP: the thread calls recv_from at
\* most accept_pings times in all, whoever sent the datagrams, and with the
\* bound exhausted the thread has ended and its socket is closed.
C13_BoundPerConnectionOrSocket ==
    /\ [](cmd = "Tcp" =>
            /\ lpc = "read" =>
                  /\ conns[stream].reads = i
                  /\ TcpHasBudget(i)
            /\ lpc = "write" => conns[stream].reads = i + 1
            /\ accept_pings # None =>
                  \A c \in Conns : conns[c].reads <= accept_pings)
    /\ [][\A c \in Conns :
             (conns[c].end = "none" /\ conns'[c].end = "bound") =>
                /\ lpc' = "accept"
                /\ listener' = "bound"
                /\ conns'[c].reads = accept_pings
                /\ i' = 0]_vars
    /\ []((cmd = "Udp" /\ accept_pings # None) =>
            /\ recvs <= accept_pings
            /\ i <= accept_pings
            /\ lpc \in {"recv_from", "send_to"} => i < accept_pings
            /\ (i = accept_pings /\ lpc \notin {"none", "spawned"}) =>
                  /\ lpc = "done"
                  /\ listener = "closed")

\* two connections have each been read to the bound, the second one after
\* the first, and the listener is still accepting
C13_Witness ==
    /\ cmd = "Tcp"
    /\ Bounded
    /\ lpc = "accept"
    /\ listener = "bound"
    /\ \E c, d \in Conns :
          /\ c # d
          /\ conns[c].end = "bound" /\ conns[c].reads = accept_pings
          /\ conns[d].end = "bound" /\ conns[d].reads = accept_pings


\* C14: startup ordering.  The listener socket is bound, and its address
\* read, by the foreground before the thread exists and before the client
\* runs: at the spawn the socket is bound and there is no thread yet, a
\* thread or a running client implies that the bind has happened, and as
\* long as the thread has not reached its first accept or recv_from the
\* socket is bound, so that a connect or a first send made meanwhile reaches
\* it.  The socket is found closed by the client only after the thread has
\* ended.
C14_BoundBeforeSpawnAndClient ==
    /\ mpc \in {"bind", "local_addr"} => lpc = "none"
    /\ mpc = "local_addr" => listener = "bound"
    /\ mpc = "spawn" => (listener = "bound" /\ lpc = "none")
    /\ lpc # "none" => listener # "unbound"
    /\ mpc \in {"connect", "log", "send", "recv", "sleep"} =>
          (lpc # "none" /\ listener # "unbound")
    /\ lpc = "spawned" => listener = "bound"
    /\ lpc \in {"accept", "read", "write", "recv_from", "send_to"} =>
          listener = "bound"
    /\ (mpc \in {"connect", "log", "send"} /\ listener # "bound") =>
          lpc = "done"
    /\ (mpc = "failed" /\ failedAt \in {"bind", "local_addr"}) =>
          (lpc = "none" /\ sent = <<>> /\ connects = 0)

\* the client has connected and written its first payload while the thread
\* has not yet called accept: the connection waits in the backlog
C14_Witness ==
    /\ cmd = "Tcp"
    /\ lpc = "spawned"
    /\ conns[Client].st = "queued"
    /\ Len(sent) = 1
    /\ conns[Client].c2s = Ping


\* C15: a connection whose processing loop has ended, for whatever reason,
\* is closed on the listener's side, and the only connection the listener
\* holds open is the one it is reading: while the thread is in accept, or
\* has ended, it holds no accepted connection.
C15_ClosedBeforeNextAccept ==
    /\ \A c \in Conns :
          /\ conns[c].end # "none" => conns[c].st \in {"dropped", "reset"}
          /\ conns[c].st = "accepted" =>
                /\ stream = c
                /\ lpc \in {"read", "write"}
                /\ conns[c].end = "none"
    /\ lpc \in {"none", "spawned", "accept", "done"} =>
          /\ stream = 0
          /\ \A c \in Conns : conns[c].st # "accepted"

\* a connection ended by end of stream is closed while the next one is
\* being read
C15_Witness ==
    /\ lpc = "read"
    /\ \E c, d \in Conns :
          /\ c # d
          /\ conns[c].end = "eof"
          /\ conns[c].st = "dropped"
          /\ conns[d].st = "accepted"
          /\ stream = d


\* ---------------------------------------------------------------- UDP run
\* The `udp` subcommand on a host where no call fails, no datagram is lost
\* and nobody else sends to the listener: exec runs spawn_udp_ping_thread
\* and ping_udp, the thread runs its loop.  Both threads are scheduled as
\* long as they can take a step.
UdpRunInit == Init /\ cmd = "Udp"

UdpRunMain ==
    \/ UdpBind \/ UdpLocalAddr \/ UdpSpawn
    \/ PingUdpBind \/ PingUdpLog \/ PingUdpSendTo \/ PingUdpRecvFrom
    \/ PingUdpSleep

UdpRunThread == UdpThreadStart \/ UdpRecvFrom \/ UdpSendTo

UdpRunNext == UdpRunMain \/ UdpRunThread

UdpRunSpec ==
    /\ UdpRunInit
    /\ [][UdpRunNext]_vars
    /\ WF_vars(UdpRunMain)
    /\ WF_vars(UdpRunThread)

\* C16: in the UDP run with bound N, without loss, third-party sender or
\* failing call, the client logs ping 0 .. ping N and nothing else, gets at
\* most N echoes, never fails, and ends up for ever in the recv_from that
\* follows its (N+1)-th send, with N echoes received, nothing to receive and
\* the listener thread gone.
C16_UdpClientBlocksAfterBound ==
    /\ [](accept_pings # None =>
            /\ Len(stderr) <= accept_pings + 1
            /\ \A k \in DOMAIN stderr : stderr[k] = k - 1
            /\ Len(replies) <= accept_pings
            /\ Alive)
    /\ <>[](accept_pings # None =>
            /\ mpc = "recv"
            /\ cq = <<>>
            /\ lpc = "done"
            /\ Len(stderr) = accept_pings + 1
            /\ Len(sent) = accept_pings + 1
            /\ Len(replies) = accept_pings
            /\ Cardinality(Echoes) = accept_pings
            /\ \A k \in DOMAIN replies : replies[k] = Ping)

\* the client waits in recv_from after one send more than the bound, all
\* echoes of the bound received, the thread ended
C16_Witness ==
    /\ cmd = "Udp"
    /\ Bounded
    /\ accept_pings = MaxBound
    /\ mpc = "recv"
    /\ lpc = "done"
    /\ Len(sent) = accept_pings + 1
    /\ Len(replies) = accept_pings
    /\ extSent = 0


\* C17: ping and echo go in lock step.  As long as the client runs and the
\* listener has neither ended the client's connection (TCP) nor ended its
\* thread (UDP), the client has sent as many payloads as it has received
\* echoes, or one more; the listener has read from the connection, or
\* received on the socket when the client is its only sender, no more often
\* than the client has sent, and has echoed no more than it has read; and
\* the client is about to log and send only with every earlier payload
\* echoed back to it.
C17_LockStep ==
    /\ (cmd = "Tcp" /\ Alive
          /\ conns[Client].st \in {"closed", "queued", "accepted"}) =>
          /\ Len(sent) - Cardinality(Echoes) \in {0, 1}
          /\ conns[Client].reads <= Len(sent)
          /\ conns[Client].echoes <= conns[Client].reads
          /\ Cardinality(Echoes) <= conns[Client].echoes
          /\ mpc \in {"log", "send"} =>
                /\ Cardinality(Echoes) = Len(sent)
                /\ \A k \in DOMAIN sent : replies[k] = sent[k]
          /\ mpc \in {"recv", "sleep"} => Len(sent) = Len(stderr)
    /\ (cmd = "Udp" /\ Alive /\ lpc # "done") =>
          /\ Len(sent) - Cardinality(Echoes) \in {0, 1}
          /\ extSent = 0 =>
                /\ recvs <= Len(sent)
                /\ i <= recvs
                /\ Cardinality(Echoes) + Len(cq) <= i
          /\ mpc \in {"log", "send"} =>
                /\ Cardinality(Echoes) = Len(sent)
                /\ \A k \in DOMAIN sent : replies[k] = sent[k]
          /\ mpc \in {"recv", "sleep"} => Len(sent) = Len(stderr)

\* the second payload is on its way: the first has been read, echoed and
\* received, the second is sent and not yet read
C17_Witness ==
    /\ cmd = "Tcp"
    /\ Alive
    /\ conns[Client].st = "accepted"
    /\ lpc = "read"
    /\ mpc = "recv"
    /\ Len(sent) = 2
    /\ Cardinality(Echoes) = 1
    /\ conns[Client].reads = 1
    /\ conns[Client].c2s = Ping


\* C18: with a bound of 0 nothing is read.  The TCP thread never reads or
\* writes: each connection it accepts is ended at once by the bound, with no
\* read and no echo, and the thread is back in accept.  The UDP thread ends
\* without a call of recv_from.  In both transports the client gets no
\* payload back.
C18_BoundZeroReadsNothing ==
    accept_pings = 0 =>
       /\ lpc \in {"none", "spawned", "accept", "done"}
       /\ cmd = "Udp" => lpc \in {"none", "spawned", "done"}
       /\ \A c \in Conns :
             /\ conns[c].reads = 0
             /\ conns[c].rdBytes = 0
             /\ conns[c].echoes = 0
             /\ conns[c].s2c = <<>>
             /\ conns[c].st # "accepted"
             /\ conns[c].end \in {"none", "bound"}
       /\ recvs = 0
       /\ i = 0
       /\ buf = <<>>
       /\ cq = <<>>
       /\ xq = <<>>
       /\ Echoes = {}

\* with bound 0 two connections, one after the other, have been accepted and
\* ended, the client's with a payload in it, and the thread accepts on
C18_Witness ==
    /\ accept_pings = 0
    /\ cmd = "Tcp"
    /\ lpc = "accept"
    /\ listener = "bound"
    /\ Len(sent) >= 1
    /\ conns[Client].end = "bound"
    /\ \E c \in Conns \ {Client} : conns[c].end = "bound"

====
